---------------------------- MODULE Spec2Model ----------------------------
(***************************************************************************)
(* A model of the flocking core of FlockingBehavior (Flocker.h): the       *)
(* uniform-grid spatial index, the neighbour query, the force engine, the  *)
(* sphere avoidance and the integrator, driven as Client::draw drives it.  *)
(*                                                                         *)
(* Numbers.  The program computes in float.  The model computes on a       *)
(* fixed-point grid: a length x is held as the integer x * SCALE, and the  *)
(* real-valued result of an operation is rounded toward zero onto the      *)
(* grid.  Comparisons (distance <= PerceptionRadius, the field-of-view     *)
(* test, the discriminant tests of the avoidance) are decided exactly, on  *)
(* squared integer quantities, so no comparison depends on a rounded root. *)
(* Weights are whole numbers and dt is a multiple of 1/DtDen seconds.      *)
(***************************************************************************)
EXTENDS Integers, Sequences, FiniteSets, TLC

VARIABLES
    boids,                    \* std::vector<Boid> the Flocker points at
    storage,                  \* identity of the vector's current buffer
    capacity,                 \* the vector's capacity
    voxelCache,               \* cell key -> sequence of Boid* (buffer, index)
    PerceptionRadius,
    FOVAngleDeg,
    FOVAngleDegCompareValue,  \* cos(FOVAngleDeg), as <<numerator, denominator>>
    SeparationWeight,
    SeparationType,
    AlignmentWeight,
    CohesionWeight,
    SteeringWeight,
    SteeringTargets,
    SteeringTargetType,
    MaxAcceleration,
    MaxVelocity,
    CollisionRadius,
    CollisionCenter,
    eng,                      \* std::mt19937: how far the engine is in its cycle
    pc,                       \* where update() is: "idle", "accel", "integrate"
    idx,                      \* the loop variable of the running for loop
    dt,                       \* the running update's dt, in 1/DtDen seconds
    steps,                    \* update() calls completed
    pre,                      \* history: boids as they were when update() began
    lastForces,               \* history: what updateBoid computed for each boid
    lastAvoid,                \* history: what avoidanceDirection returned for each boid
    scene,                    \* history: the family the initial state was drawn from
    edits                     \* external changes made between steps

params == <<FOVAngleDeg, SeparationWeight, SeparationType, AlignmentWeight,
            CohesionWeight, SteeringWeight, SteeringTargets, SteeringTargetType,
            MaxAcceleration, MaxVelocity, CollisionRadius, CollisionCenter>>

vars == <<boids, storage, capacity, voxelCache, PerceptionRadius,
          FOVAngleDegCompareValue, params, eng, pc, idx, dt, steps, pre,
          lastForces, lastAvoid, scene, edits>>

----------------------------------------------------------------------------
(* Fixed-point resolution and the bounds of the model *)

\* grid units per world unit: halves, so that CollisionRadius + 0.5f is on the grid
SCALE == 2

\* dt is DtNum / DtDen seconds
DtDen == 2

\* update() calls explored from each initial state
MaxSteps == 2

\* agents the external collaborator may grow the collection to
MaxBoids == 3

\* external changes (an agent added, the radius changed) explored in one run
MaxEdits == 1

\* |x|, |y| of the positions the neighbour-query specification draws, in grid units
MaxCoord == 2

----------------------------------------------------------------------------
(* Integer helpers *)

Abs(x) == IF x < 0 THEN -x ELSE x

Sign(x) == IF x < 0 THEN -1 ELSE IF x > 0 THEN 1 ELSE 0

\* static_cast<int>(a / b) and every rounding toward zero: C's truncating division
TruncDiv(a, b) ==
    IF b = 0 THEN 0
    ELSE Sign(a) * Sign(b) * (Abs(a) \div Abs(b))

RECURSIVE ISqrtBetween(_, _, _)
ISqrtBetween(n, lo, hi) ==
    IF lo >= hi THEN lo
    ELSE LET mid == (lo + hi + 1) \div 2
         IN  IF mid * mid <= n THEN ISqrtBetween(n, mid, hi)
             ELSE ISqrtBetween(n, lo, mid - 1)

\* floor(sqrtf(n)) for n >= 0
ISqrt(n) == IF n <= 0 THEN 0 ELSE ISqrtBetween(n, 0, IF n < 46340 THEN n ELSE 46340)

----------------------------------------------------------------------------
(* glm::vec3 *)

Zero3 == <<0, 0, 0>>

VAdd(a, b) == <<a[1] + b[1], a[2] + b[2], a[3] + b[3]>>

VSub(a, b) == <<a[1] - b[1], a[2] - b[2], a[3] - b[3]>>

VNeg(a) == <<-a[1], -a[2], -a[3]>>

VMul(a, k) == <<a[1] * k, a[2] * k, a[3] * k>>

VDiv(a, k) == <<TruncDiv(a[1], k), TruncDiv(a[2], k), TruncDiv(a[3], k)>>

Dot(a, b) == a[1] * b[1] + a[2] * b[2] + a[3] * b[3]

Cross(a, b) == <<a[2] * b[3] - a[3] * b[2],
                 a[3] * b[1] - a[1] * b[3],
                 a[1] * b[2] - a[2] * b[1]>>

\* glm::length2
Length2(a) == Dot(a, a)

\* glm::any(glm::equal(a, b)): some component is equal
AnyEqual(a, b) == a[1] = b[1] \/ a[2] = b[2] \/ a[3] = b[3]

----------------------------------------------------------------------------
(* clampLength *)

\* glm::normalize(v) * length for v # 0 and length >= 0
NormalizeTimes(v, length) ==
    LET n == Length2(v)
        c(x) == Sign(x) * ISqrt((x * x * length * length) \div n)
    IN  <<c(v[1]), c(v[2]), c(v[3])>>

clampLengthNoClamp(v, length) == v

clampLength(v, length) ==
    IF Length2(v) > length * length
    THEN NormalizeTimes(v, length)
    ELSE v

----------------------------------------------------------------------------
(* struct Boid *)

Boid(pos, vel) ==
    [position |-> pos, velocity |-> vel, acceleration |-> Zero3,
     motion_normal |-> <<0, 0, 1>>, size |-> 1, avoidance |-> FALSE]

\* a Boid*: the buffer it points into and the element's index
Ptr(buf, i) == [buf |-> buf, idx |-> i]

----------------------------------------------------------------------------
(* The spatial index *)

\* Flocker::getVoxelForBoid
getVoxelForBoid(b, radiusField) ==
    LET radius == Abs(radiusField)
        p == b.position
    IN  <<TruncDiv(p[1], radius), TruncDiv(p[2], radius), TruncDiv(p[3], radius)>>

VoxelCacheKeep(cache) == cache

\* voxelCache.clear()
VoxelCacheClear(cache) == [k \in {} |-> <<>>]

\* the for loop of buildVoxelCache: voxelCache[getVoxelForBoid(b)].push_back(&b)
VoxelCacheInsertAll(cache, bs, radiusField, buf) ==
    LET key(i) == getVoxelForBoid(bs[i], radiusField)
        all == [i \in 1..Len(bs) |-> Ptr(buf, i)]
        keys == DOMAIN cache \cup {key(i) : i \in 1..Len(bs)}
        InCell(k) == SelectSeq(all, LAMBDA p : key(p.idx) = k)
    IN  [k \in keys |->
            (IF k \in DOMAIN cache THEN cache[k] ELSE <<>>) \o InCell(k)]

\* an index built once and kept from then on
buildVoxelCacheOnce(cache, bs, radiusField, buf) ==
    IF DOMAIN cache = {}
    THEN VoxelCacheInsertAll(VoxelCacheClear(cache), bs, radiusField, buf)
    ELSE cache

\* Flocker::buildVoxelCache
buildVoxelCache(cache, bs, radiusField, buf) ==
    VoxelCacheInsertAll(VoxelCacheClear(cache), bs, radiusField, buf)

----------------------------------------------------------------------------
(* The neighbour query *)

\* cos(TWO_PI * FOVAngleDeg / 360) for the angles whose cosine is rational
CosDeg(a) ==
    CASE a = 0   -> <<1, 1>>
      [] a = 60  -> <<1, 2>>
      [] a = 90  -> <<0, 1>>
      [] a = 120 -> <<-1, 2>>
      [] a = 180 -> <<-1, 1>>

\* FOVAngleDegCompareValue > dot / (l1 * l2), with l1 * l2 = sqrt(n12) > 0 and
\* FOVAngleDegCompareValue = cmp[1] / cmp[2], decided on the squares
CmpGreaterThanRatio(cmp, dot, n12) ==
    LET A == cmp[2] * dot
        B == cmp[1]
    IN  IF B >= 0
        THEN IF A < 0 THEN TRUE ELSE B * B * n12 > A * A
        ELSE IF A >= 0 THEN FALSE ELSE B * B * n12 < A * A

\* the condition of the if of checkVoxelForBoids, without the pointer test:
\* distance <= PerceptionRadius && (FOVAngleDegCompareValue > compareValue
\*                                  || glm::length(b.velocity) == 0)
InPerception(b, test, radiusField, cmp) ==
    LET vec == VSub(test.position, b.position)
        n1 == Length2(vec)
        n2 == Length2(b.velocity)
        fov == IF n1 # 0 /\ n2 # 0
               THEN CmpGreaterThanRatio(cmp, Dot(VNeg(b.velocity), vec), n1 * n2)
               ELSE cmp[1] > 0         \* compareValue = 0.0f
    IN  /\ radiusField >= 0
        /\ n1 <= radiusField * radiusField
        /\ (fov \/ n2 = 0)

\* Flocker::checkVoxelForBoids: the NearbyBoid records one cell adds to result
checkVoxelForBoids(i, bs, buf, cache, radiusField, cmp, voxelPos) ==
    IF voxelPos \in DOMAIN cache
    THEN LET hits == SelectSeq(cache[voxelPos],
                        LAMBDA test : /\ test # Ptr(buf, i)
                                      /\ InPerception(bs[i], bs[test.idx], radiusField, cmp))
         IN  [n \in 1..Len(hits) |->
                 [boid |-> hits[n],
                  direction |-> VSub(bs[hits[n].idx].position, bs[i].position),
                  distance2 |-> Length2(VSub(bs[hits[n].idx].position, bs[i].position))]]
    ELSE <<>>

BlockStartNoShift(voxelPos) == voxelPos

\* voxelPos.x -= 1; voxelPos.y -= 1; voxelPos.z -= 1
BlockStart(voxelPos) == VSub(voxelPos, <<1, 1, 1>>)

\* the n-th cell the three nested loops of getNearbyBoids visit (x outermost)
BlockCell(start, n) ==
    VAdd(start, <<(n - 1) \div 9, ((n - 1) \div 3) % 3, (n - 1) % 3>>)

RECURSIVE ScanBlock(_, _, _, _, _, _, _, _)
ScanBlock(i, bs, buf, cache, radiusField, cmp, start, n) ==
    IF n > 27 THEN <<>>
    ELSE checkVoxelForBoids(i, bs, buf, cache, radiusField, cmp, BlockCell(start, n))
         \o ScanBlock(i, bs, buf, cache, radiusField, cmp, start, n + 1)

\* Flocker::getNearbyBoids
getNearbyBoids(i, bs, buf, cache, radiusField, cmp) ==
    ScanBlock(i, bs, buf, cache, radiusField, cmp,
              BlockStart(getVoxelForBoid(bs[i], radiusField)), 1)

----------------------------------------------------------------------------
(* The force engine *)

\* transformDistance(d1) < transformDistance(d2) for distances with squares n1, n2
TransformLess(n1, n2, type) ==
    IF type \in {"LINEAR", "QUADRATIC"}
    THEN n1 < n2
    ELSE \/ n1 = 0 /\ n2 # 0
         \/ n1 # 0 /\ n2 # 0 /\ n1 > n2

\* x * transformDistance(distance, type) for a distance with square n
TimesTransform(x, n, type) ==
    CASE type = "LINEAR"            -> Sign(x) * ISqrt((x * x * n) \div (SCALE * SCALE))
      [] type = "INVERSE_LINEAR"    -> IF n = 0 THEN 0
                                       ELSE Sign(x) * ISqrt((x * x * SCALE * SCALE) \div n)
      [] type = "QUADRATIC"         -> TruncDiv(x * n, SCALE * SCALE)
      [] type = "INVERSE_QUADRATIC" -> IF n = 0 THEN 0
                                       ELSE TruncDiv(x * SCALE * SCALE, n)

\* -closeBoid.direction * separationFactor
SeparationTerm(direction, n, type) ==
    <<-TimesTransform(direction[1], n, type),
      -TimesTransform(direction[2], n, type),
      -TimesTransform(direction[3], n, type)>>

\* (x / |d|) * transformDistance(|d|, type) for a component x of d, |d|^2 = n > 0
NormalizedTimesTransform(x, n, type) ==
    CASE type = "LINEAR"            -> x
      [] type = "INVERSE_LINEAR"    -> TruncDiv(x * SCALE * SCALE, n)
      [] type = "QUADRATIC"         -> Sign(x) * ISqrt((x * x * n) \div (SCALE * SCALE))
      [] type = "INVERSE_QUADRATIC" ->
            Sign(x) * ISqrt((((x * x * SCALE * SCALE * SCALE * SCALE * SCALE * SCALE)
                                \div n) \div n) \div n)

\* getRandomUniform(eng) * 1000.0f: the factor
RandomScale == 1000

\* getRandomUniform: the unit vectors of the model's grid
RandomUniform ==
    {<<1, 0, 0>>, <<0, 0, -1>>}

\* the length of the engine's cycle
EngPeriod == 4

\* what getRandomUniform returns when the engine is at e: consecutive draws
\* differ
Draw(e) == IF e % 2 = 0 THEN <<1, 0, 0>> ELSE <<0, 0, -1>>

KickTermNone(kick) == Zero3

\* getRandomUniform(eng) * 1000.0f
KickTerm(kick) == VMul(kick, RandomScale * SCALE)

\* the positions of the zero-distance records of a nearby list: one draw each
ZeroDistance(nearby) == {n \in 1..Len(nearby) : nearby[n].distance2 = 0}

\* the draws updateBoid makes, in the order of the nearby list, from an
\* engine at e
DrawKicks(nearby, e) ==
    [n \in ZeroDistance(nearby) |->
        Draw(e + Cardinality({m \in ZeroDistance(nearby) : m < n}))]

\* an engine every call of updateBoid advances
EngAfterAlways(nearby, e) == (e + 1) % EngPeriod

\* the engine after those draws
EngAfter(nearby, e) == (e + Cardinality(ZeroDistance(nearby))) % EngPeriod

RECURSIVE SumSeq(_, _)
SumSeq(f, n) == IF n = 0 THEN Zero3 ELSE VAdd(SumSeq(f, n - 1), f[n])

\* the for loop over SteeringTargets: <<steeringTarget, found, its squared distance>>
RECURSIVE ChooseTarget(_, _, _, _, _)
ChooseTarget(pos, targets, type, n, best) ==
    IF n > Len(targets) THEN best
    ELSE LET d2 == Length2(VSub(pos, targets[n]))
         IN  ChooseTarget(pos, targets, type, n + 1,
                 IF ~best.found \/ TransformLess(d2, best.d2, type)
                 THEN [target |-> targets[n], found |-> TRUE, d2 |-> d2]
                 ELSE best)

\* if (!glm::any(glm::equal(steeringTarget, b.position)))
SteeringGuard(steeringTarget, position) == ~AnyEqual(steeringTarget, position)

\* the steering term of updateBoid
SteeringOf(pos, targets, type) ==
    LET best == ChooseTarget(pos, targets, type, 1,
                             [target |-> pos, found |-> FALSE, d2 |-> 0])
        d == VSub(best.target, pos)
    IN  IF SteeringGuard(best.target, pos)
        THEN <<NormalizedTimesTransform(d[1], best.d2, type),
               NormalizedTimesTransform(d[2], best.d2, type),
               NormalizedTimesTransform(d[3], best.d2, type)>>
        ELSE Zero3

AvgPositionNoDefault(count, positionSum, position) == VDiv(positionSum, count)

\* nearby.size() > 0 ? positionSum / (float)nearby.size() : b.position
AvgPosition(count, positionSum, position) ==
    IF count > 0 THEN VDiv(positionSum, count) ELSE position

\* Flocker::updateBoid for boid i, given its nearby list and the random draws
updateBoid(i, bs, nearby, kicks, sepW, sepType, aliW, cohW, steerW, targets, steerType, maxAcc) ==
    LET count == Len(nearby)
        sepTerm(n) == IF nearby[n].distance2 = 0
                      THEN KickTerm(kicks[n])
                      ELSE SeparationTerm(nearby[n].direction, nearby[n].distance2, sepType)
        separationSum == SumSeq([n \in 1..count |-> sepTerm(n)], count)
        headingSum == SumSeq([n \in 1..count |-> bs[nearby[n].boid.idx].velocity], count)
        positionSum == SumSeq([n \in 1..count |-> bs[nearby[n].boid.idx].position], count)
        separation == IF count > 0 THEN VDiv(separationSum, count) ELSE separationSum
        alignment == IF count > 0 THEN VDiv(headingSum, count) ELSE headingSum
        avgPosition == AvgPosition(count, positionSum, bs[i].position)
        cohesion == VSub(avgPosition, bs[i].position)
        steering == SteeringOf(bs[i].position, targets, steerType)
        raw == VAdd(VAdd(VMul(separation, sepW), VMul(alignment, aliW)),
                    VAdd(VMul(cohesion, cohW), VMul(steering, steerW)))
    IN  [nearby |-> nearby, separation |-> separation, alignment |-> alignment,
         cohesion |-> cohesion, steering |-> steering, raw |-> raw,
         acceleration |-> clampLength(raw, maxAcc), valid |-> TRUE]

----------------------------------------------------------------------------
(* The sphere avoidance *)

\* R = CollisionRadius + 0.5f: the padding, in grid units
Padding == SCALE \div 2

\* resolution of the unit vector avoidanceDirection returns
USCALE == 100

RangeCheckNever(a, b, r2, rel2) == FALSE

\* the range check: -(b + sqrt(delta)) * |v| / (2a) >= R, for a sphere the
\* seeing check found ahead; with a = 0 it is 0/0 >= R, which is false
RangeCheck(a, b, r2, rel2) ==
    /\ a # 0
    /\ b <= 0
    /\ b * b >= 4 * r2 * a
    /\ rel2 * rel2 * a >= r2 * b * b

\* Flocker::avoidanceDirection: the flag it stores, the vector it returns (the
\* velocity, or a unit vector in 1/USCALE, or NaN), and what it evaluated
avoidanceDirection(boid, center, radius) ==
    LET R == radius + Padding
        r2 == R * R
        v == boid.velocity
        rel == VSub(boid.position, center)
        a == Length2(v)
        b == 2 * Dot(v, rel)
        c == Length2(rel) - r2
        delta == b * b - 4 * a * c
        \* delta >= 0 && b + sqrt(delta) <= 0
        seeing == delta >= 0 /\ b <= 0 /\ delta <= b * b
        range == RangeCheck(a, b, r2, Length2(rel))
        n == boid.motion_normal
        h == Dot(n, VSub(center, boid.position))
        s2 == r2 - h * h
        C == VSub(center, VMul(n, h))
        d == VSub(C, boid.position)
        D == Length2(d)
        sign == IF Dot(n, Cross(d, v)) > 0 THEN 1 ELSE -1
        e == Cross(n, d)
        nan == s2 < 0 \/ D = 0 \/ s2 > D
        cosD == ISqrt((D - s2) * USCALE * USCALE)
        sinD == ISqrt(s2 * USCALE * USCALE)
        u == <<TruncDiv(cosD * d[1] + sign * sinD * e[1], D),
               TruncDiv(cosD * d[2] + sign * sinD * e[2], D),
               TruncDiv(cosD * d[3] + sign * sinD * e[3], D)>>
    IN  IF ~seeing \/ range
        THEN [avoidance |-> FALSE, target |-> v, unit |-> FALSE, nan |-> FALSE,
              divZero |-> seeing /\ a = 0, sqrtNeg |-> FALSE, valid |-> TRUE]
        ELSE [avoidance |-> TRUE, target |-> IF nan THEN Zero3 ELSE u,
              unit |-> TRUE, nan |-> nan,
              divZero |-> a = 0 \/ D = 0,
              sqrtNeg |-> s2 < 0 \/ (D # 0 /\ s2 > D), valid |-> TRUE]

----------------------------------------------------------------------------
(* The integrator *)

\* 1 / RESPONSE, RESPONSE = 0.1f
ResponseInv == 10

\* the divisor of 0.1f * boid.position
TenthDen == 10

\* x taken for a whole second, whatever dt is
TimesDtWhole(x, dtNum) == x

\* x * dt
TimesDt(x, dtNum) == TruncDiv(x * dtNum, DtDen)

VTimesDt(a, dtNum) == <<TimesDt(a[1], dtNum), TimesDt(a[2], dtNum), TimesDt(a[3], dtNum)>>

\* glm::length(target) > 0.001f, for a returned vector that is not NaN
TargetLongEnough(av) ==
    IF av.unit
    THEN Length2(av.target) > (USCALE * USCALE) \div (1000 * 1000)
    ELSE Length2(av.target) > (SCALE * SCALE) \div (1000 * 1000)

\* glm::length(boid.velocity) * target, for a unit target
SpeedTimes(v, u) ==
    LET m == ISqrt(Length2(v) * USCALE * USCALE)
    IN  <<TruncDiv(m * u[1], USCALE * USCALE),
          TruncDiv(m * u[2], USCALE * USCALE),
          TruncDiv(m * u[3], USCALE * USCALE)>>

\* 0.1f * boid.position - CollisionCenter
Fallback(position, center) == VSub(VDiv(position, TenthDen), center)

\* the body of the for loop of update() for one boid, given avoidanceDirection's result
\* a loop body that also turns the plane of motion over
integrateFlipNormal(boid, av, dtNum, maxVel, center, radius) ==
    [boid EXCEPT !.avoidance = av.avoidance, !.motion_normal = VNeg(@)]

integrate(boid, av, dtNum, maxVel, center, radius) ==
    LET v0 == boid.velocity
        v1 == IF ~av.nan /\ TargetLongEnough(av) /\ av.avoidance
              THEN VAdd(v0, VTimesDt(VMul(VSub(SpeedTimes(v0, av.target), v0),
                                          ResponseInv), dtNum))
              ELSE v0
        v2 == clampLength(VAdd(v1, VTimesDt(boid.acceleration, dtNum)), maxVel)
        p1 == VAdd(boid.position, VTimesDt(v2, dtNum))
        inside == Length2(VSub(p1, center)) < radius * radius
        v3 == IF inside THEN VAdd(v2, Fallback(p1, center)) ELSE v2
    IN  [boid EXCEPT !.avoidance = av.avoidance, !.velocity = v3, !.position = p1]

----------------------------------------------------------------------------
(* Initial states: the Flocker as constructed, over a std::vector<Boid> the  *)
(* external collaborator filled, with the public fields it set.  Lengths     *)
(* are in grid units (1/SCALE).                                              *)

NoForces ==
    [nearby |-> <<>>, separation |-> Zero3, alignment |-> Zero3, cohesion |-> Zero3,
     steering |-> Zero3, raw |-> Zero3, acceleration |-> Zero3, valid |-> FALSE]

NoAvoid ==
    [avoidance |-> FALSE, target |-> Zero3, unit |-> FALSE, nan |-> FALSE,
     divZero |-> FALSE, sqrtNeg |-> FALSE, valid |-> FALSE]

DistanceTypes == {"LINEAR", "INVERSE_LINEAR", "QUADRATIC", "INVERSE_QUADRATIC"}

FOVAngles == {60, 90, 180}

\* the fields of a Flocker; the curve types are the class's defaults, the
\* field of view is one of the angles CosDeg is exact for, and the engine
\* is at 0 (the scenes that draw from it start it at each of Seeds)
Fields ==
    [family |-> "flock", boids |-> <<>>, PerceptionRadius |-> 30 * SCALE,
     FOVAngleDeg |-> 60, SeparationWeight |-> 1,
     SeparationType |-> "INVERSE_QUADRATIC", AlignmentWeight |-> 1,
     CohesionWeight |-> 1, SteeringWeight |-> 1, SteeringTargets |-> <<>>,
     SteeringTargetType |-> "LINEAR", MaxAcceleration |-> 5 * SCALE,
     MaxVelocity |-> 5 * SCALE, CollisionRadius |-> 1 * SCALE,
     CollisionCenter |-> <<0, 40 * SCALE, 0>>, eng |-> 0]

\* one agent, no target, the sphere far away
SingleVelocities ==
    {<<0, 0, 0>>, <<2, 0, 0>>, <<-2, 4, 1>>, <<0, -6, 8>>, <<12, 0, 0>>, <<0, 8, 8>>}

SingleScenes ==
    {[Fields EXCEPT !.family = "single", !.boids = <<Boid(p, v)>>,
                    !.PerceptionRadius = 2 * SCALE]
        : p \in {<<-3, 5, 1>>}, v \in SingleVelocities}

\* one agent at the origin and steering targets; only the steering weight is not 0
TargetLists ==
    {<<<<20, 0, 0>>>>, <<<<20, 4, 4>>>>, <<<<20, 4, 4>>, <<6, 2, -2>>>>,
     <<<<0, 0, 0>>>>, <<<<3, 4, 0>>, <<-3, -4, 1>>>>}

TargetScenes ==
    {[Fields EXCEPT !.family = "target", !.boids = <<Boid(<<0, 0, 0>>, v)>>,
                    !.SeparationWeight = 0, !.AlignmentWeight = 0,
                    !.CohesionWeight = 0, !.SteeringWeight = 1,
                    !.SteeringTargets = t, !.SteeringTargetType = ty]
        : v \in {<<0, 0, 0>>}, t \in TargetLists, ty \in DistanceTypes}

\* one agent near a sphere of radius 1 centred at the origin
SpherePositions ==
    {<<-10, 0, 0>>, <<-4, 0, 0>>, <<-10, 6, 0>>, <<-4, 0, 6>>, <<0, 0, -3>>,
     <<-4, 2, 0>>, <<-2, 0, 0>>}

SphereVelocities ==
    {<<2, 0, 0>>, <<0, 0, 0>>, <<-2, 0, 0>>, <<2, 0, -3>>, <<0, 0, 2>>, <<4, -2, 0>>}

SphereScenes ==
    {[Fields EXCEPT !.family = "sphere", !.boids = <<Boid(p, v)>>,
                    !.PerceptionRadius = 2 * SCALE,
                    !.CollisionCenter = <<0, 0, 0>>]
        : p \in SpherePositions, v \in SphereVelocities}

\* the states std::mt19937(rd()) may leave the engine in
Seeds == {0, 1}

\* two agents at one position
CoincidentVelocities ==
    {<<<<0, 0, 0>>, <<0, 0, 0>>>>, <<<<2, 0, 0>>, <<2, 0, 0>>>>,
     <<<<2, 0, 0>>, <<0, 0, 0>>>>}

CoincidentScenes ==
    {[Fields EXCEPT !.family = "coincident",
                    !.boids = <<Boid(<<4, 4, 0>>, v[1]), Boid(<<4, 4, 0>>, v[2])>>,
                    !.FOVAngleDeg = a, !.eng = e]
        : v \in CoincidentVelocities, a \in FOVAngles, e \in Seeds}

\* the flock Client's constructor builds (its first three agents), the target
\* at the cursor, the sphere of radius 2 at (-3, -3, 0); a flock with an
\* agent about to enter that sphere, and an agent about to enter it from the
\* side away from the origin
FlockScenes ==
    {[Fields EXCEPT !.boids = bs, !.SteeringTargets = <<<<0, -1, 1>>>>,
                    !.CollisionRadius = 2 * SCALE,
                    !.CollisionCenter = <<-6, -6, 0>>,
                    !.PerceptionRadius = r, !.SeparationType = ty]
        : bs \in {<<Boid(<<2, 0, 0>>, <<2, 0, 0>>), Boid(<<5, 0, 0>>, <<2, 2, 0>>),
                    Boid(<<2, 3, 0>>, <<0, 2, 0>>)>>,
                  <<Boid(<<-10, -6, 0>>, <<4, 0, 0>>), Boid(<<-13, -5, 1>>, <<2, 0, 0>>)>>,
                  <<Boid(<<-9, -9, 0>>, <<1, 1, 0>>)>>},
          r \in {3, 30 * SCALE},
          ty \in {"INVERSE_QUADRATIC"}}

Scenes == SingleScenes \cup TargetScenes \cup SphereScenes \cup CoincidentScenes
          \cup FlockScenes

InitFrom(s) ==
    /\ boids = s.boids
    /\ storage = 0
    /\ capacity = Len(s.boids)   \* the push_backs that built it left it full
    /\ voxelCache = [k \in {} |-> <<>>]
    /\ PerceptionRadius = s.PerceptionRadius
    /\ FOVAngleDeg = s.FOVAngleDeg
    /\ FOVAngleDegCompareValue = <<0, 1>>
    /\ SeparationWeight = s.SeparationWeight
    /\ SeparationType = s.SeparationType
    /\ AlignmentWeight = s.AlignmentWeight
    /\ CohesionWeight = s.CohesionWeight
    /\ SteeringWeight = s.SteeringWeight
    /\ SteeringTargets = s.SteeringTargets
    /\ SteeringTargetType = s.SteeringTargetType
    /\ MaxAcceleration = s.MaxAcceleration
    /\ MaxVelocity = s.MaxVelocity
    /\ CollisionRadius = s.CollisionRadius
    /\ CollisionCenter = s.CollisionCenter
    /\ eng = s.eng
    /\ pc = "idle"
    /\ idx = 0
    /\ dt = 0
    /\ steps = 0
    /\ pre = s.boids
    /\ lastForces = [i \in 1..Len(s.boids) |-> NoForces]
    /\ lastAvoid = [i \in 1..Len(s.boids) |-> NoAvoid]
    /\ scene = s.family
    /\ edits = 0

Init == \E s \in Scenes : InitFrom(s)

----------------------------------------------------------------------------
(* Flocker::update(dt), one action per step of its control flow *)

\* the dt values Client::draw passes, in 1/DtDen seconds
DtNums == {0, 1, DtDen}

\* update() up to the first iteration of updateAcceleration's loop:
\* the compare value, the radius substitution, buildVoxelCache
UpdateBegin(d) ==
    /\ pc = "idle"
    /\ steps < MaxSteps
    /\ dt' = d
    /\ FOVAngleDegCompareValue' = CosDeg(FOVAngleDeg)
    /\ PerceptionRadius' = IF PerceptionRadius = 0 THEN 1 * SCALE ELSE PerceptionRadius
    /\ voxelCache' = buildVoxelCache(voxelCache, boids, PerceptionRadius', storage)
    /\ pre' = boids
    /\ IF Len(boids) = 0
       THEN pc' = "idle" /\ idx' = 0 /\ steps' = steps + 1
       ELSE pc' = "accel" /\ idx' = 1 /\ steps' = steps
    /\ UNCHANGED <<boids, storage, capacity, params, eng, lastForces, lastAvoid,
                   scene, edits>>

\* a loop that computes and integrates each boid in turn
UpdateBoidStepInterleaved ==
    /\ pc = "accel"
    /\ LET nearby == getNearbyBoids(idx, boids, storage, voxelCache,
                                    PerceptionRadius, FOVAngleDegCompareValue)
       IN    LET f == updateBoid(idx, boids, nearby, DrawKicks(nearby, eng),
                                 SeparationWeight, SeparationType, AlignmentWeight,
                                 CohesionWeight, SteeringWeight, SteeringTargets,
                                 SteeringTargetType, MaxAcceleration)
                 b == [boids[idx] EXCEPT !.acceleration = f.acceleration]
                 av == avoidanceDirection(b, CollisionCenter, CollisionRadius)
             IN  /\ boids' = [boids EXCEPT ![idx] =
                                 integrate(b, av, dt, MaxVelocity,
                                           CollisionCenter, CollisionRadius)]
                 /\ lastForces' = [lastForces EXCEPT ![idx] = f]
                 /\ eng' = EngAfter(nearby, eng)
    /\ IF idx < Len(boids)
       THEN pc' = "accel" /\ idx' = idx + 1
       ELSE pc' = "integrate" /\ idx' = 1
    /\ UNCHANGED <<storage, capacity, voxelCache, PerceptionRadius,
                   FOVAngleDegCompareValue, params, dt, steps, pre, lastAvoid,
                   scene, edits>>

\* one iteration of the loop of updateAcceleration: updateBoid(boid)
UpdateBoidStep ==
    /\ pc = "accel"
    /\ LET nearby == getNearbyBoids(idx, boids, storage, voxelCache,
                                    PerceptionRadius, FOVAngleDegCompareValue)
       IN    LET f == updateBoid(idx, boids, nearby, DrawKicks(nearby, eng),
                                 SeparationWeight, SeparationType, AlignmentWeight,
                                 CohesionWeight, SteeringWeight, SteeringTargets,
                                 SteeringTargetType, MaxAcceleration)
             IN  /\ boids' = [boids EXCEPT ![idx].acceleration = f.acceleration]
                 /\ lastForces' = [lastForces EXCEPT ![idx] = f]
                 /\ eng' = EngAfter(nearby, eng)
    /\ IF idx < Len(boids)
       THEN pc' = "accel" /\ idx' = idx + 1
       ELSE pc' = "integrate" /\ idx' = 1
    /\ UNCHANGED <<storage, capacity, voxelCache, PerceptionRadius,
                   FOVAngleDegCompareValue, params, dt, steps, pre, lastAvoid,
                   scene, edits>>

\* one iteration of the loop of update(): avoidanceDirection, the blend, the
\* clamped integration, the fallback
IntegrateStep ==
    /\ pc = "integrate"
    /\ LET av == avoidanceDirection(boids[idx], CollisionCenter, CollisionRadius)
       IN  /\ boids' = [boids EXCEPT ![idx] =
                           integrate(boids[idx], av, dt, MaxVelocity,
                                     CollisionCenter, CollisionRadius)]
           /\ lastAvoid' = [lastAvoid EXCEPT ![idx] = av]
    /\ IF idx < Len(boids)
       THEN pc' = "integrate" /\ idx' = idx + 1 /\ steps' = steps
       ELSE pc' = "idle" /\ idx' = 0 /\ steps' = steps + 1
    /\ UNCHANGED <<storage, capacity, voxelCache, PerceptionRadius,
                   FOVAngleDegCompareValue, params, eng, dt, pre, lastForces,
                   scene, edits>>

----------------------------------------------------------------------------
(* The external collaborator, between steps (Client::draw) *)

\* the agents the "Add Agent" button may create
NewAgents == {Boid(<<1, -1, 2>>, <<-2, 1, 0>>)}

\* boids.push_back(Boid(...)): the vector reallocates when it is full
AddAgent(b) ==
    /\ pc = "idle"
    /\ edits < MaxEdits
    /\ Len(boids) < MaxBoids
    /\ boids' = Append(boids, b)
    /\ IF Len(boids) = capacity
       THEN storage' = storage + 1 /\ capacity' = 2 * capacity
       ELSE UNCHANGED <<storage, capacity>>
    /\ pre' = Append(pre, b)
    /\ lastForces' = Append(lastForces, NoForces)
    /\ lastAvoid' = Append(lastAvoid, NoAvoid)
    /\ edits' = edits + 1
    /\ UNCHANGED <<voxelCache, PerceptionRadius, FOVAngleDegCompareValue, params,
                   eng, pc, idx, dt, steps, scene>>

\* the values the perception-radius field may be set to
RadiusChoices == {0}

\* a write to flock.PerceptionRadius
SetPerceptionRadius(r) ==
    /\ pc = "idle"
    /\ edits < MaxEdits
    /\ r # PerceptionRadius
    /\ PerceptionRadius' = r
    /\ edits' = edits + 1
    /\ UNCHANGED <<boids, storage, capacity, voxelCache, FOVAngleDegCompareValue,
                   params, eng, pc, idx, dt, steps, pre, lastForces, lastAvoid,
                   scene>>

Next ==
    \/ \E d \in DtNums : UpdateBegin(d)
    \/ UpdateBoidStep
    \/ IntegrateStep
    \/ \E b \in NewAgents : AddAgent(b)
    \/ \E r \in RadiusChoices : SetPerceptionRadius(r)

Spec == Init /\ [][Next]_vars

----------------------------------------------------------------------------
(* The neighbour query on drawn inputs: two agents anywhere on a small grid  *)
(* around the origin, and phase 1 of one update()                            *)

QueryCoords == (-MaxCoord)..MaxCoord

QueryScenes ==
    {[Fields EXCEPT !.family = "query",
                    !.boids = <<Boid(<<x1, y1, 0>>, v), Boid(<<x2, y2, z2>>, <<0, -1, 0>>)>>,
                    !.PerceptionRadius = r]
        : x1 \in QueryCoords, y1 \in QueryCoords,
          x2 \in QueryCoords, y2 \in QueryCoords, z2 \in {-1, 0, 1},
          v \in {<<0, 0, 0>>, <<1, 0, 0>>}, r \in {1, 2}}

InitQuery == \E s \in QueryScenes : InitFrom(s)

NextQuery ==
    \/ \E d \in {0} : UpdateBegin(d)
    \/ UpdateBoidStep

SpecQuery == InitQuery /\ [][NextQuery]_vars

----------------------------------------------------------------------------
(* What the history variables describe *)

Range(f) == {f[n] : n \in DOMAIN f}

\* lastForces[i] is what the running (or the last) update() computed for boid i,
\* from the state pre holds
Computed(i) ==
    /\ i \in 1..Len(boids)
    /\ lastForces[i].valid
    /\ \/ pc = "accel" /\ idx > i
       \/ pc = "integrate"
       \/ pc = "idle" /\ steps > 0

\* lastAvoid[i] is what the running (or the last) update() got from
\* avoidanceDirection for boid i, whose position and velocity then were pre[i]'s
Integrated(i) ==
    /\ i \in 1..Len(boids)
    /\ lastAvoid[i].valid
    /\ \/ pc = "integrate" /\ idx > i
       \/ pc = "idle" /\ steps > 0

----------------------------------------------------------------------------
(* C1 *)

\* the brute-force scan: every other agent that passes the predicate
BruteForce(i) ==
    {j \in 1..Len(boids) :
        /\ j # i
        /\ InPerception(boids[i], boids[j], PerceptionRadius, FOVAngleDegCompareValue)}

GridQuery(i) ==
    getNearbyBoids(i, boids, storage, voxelCache, PerceptionRadius,
                   FOVAngleDegCompareValue)

\* C1: right after buildVoxelCache (all through phase 1), for every agent the
\* agents getNearbyBoids returns from the 3x3x3 block of cells are exactly
\* the agents a scan of the whole collection finds with the same predicate,
\* each returned once.
NeighborEquivalence ==
    pc = "accel" =>
        \A i \in 1..Len(boids) :
            /\ {nb.boid.idx : nb \in Range(GridQuery(i))} = BruteForce(i)
            /\ Len(GridQuery(i)) = Cardinality(BruteForce(i))

\* a neighbour found across a cell border, from an agent at a negative
\* coordinate that lies on a cell boundary
NeighborEquivalenceWitness ==
    /\ pc = "accel"
    /\ PerceptionRadius = 2
    /\ boids[1].position = <<-2, 0, 0>>
    /\ boids[2].position = <<-1, 1, -1>>
    /\ BruteForce(1) = {2}
    /\ getVoxelForBoid(boids[1], PerceptionRadius) # getVoxelForBoid(boids[2], PerceptionRadius)

----------------------------------------------------------------------------
(* C9 *)

\* k is x / r truncated toward zero
IsTruncation(k, x, r) ==
    /\ Abs(k) * r <= Abs(x)
    /\ Abs(x) < (Abs(k) + 1) * r
    /\ k * x >= 0

Entries(cache) == {<<k, n>> : k \in DOMAIN cache, n \in 1..MaxBoids + 1}
                  \cap {e \in (DOMAIN cache) \X (1..MaxBoids + 1) : e[2] <= Len(cache[e[1]])}

\* C9: right after buildVoxelCache (all through phase 1) every agent of the
\* collection is in exactly one cell of voxelCache, once, the index holds
\* nothing else, and the cell's key is position / |PerceptionRadius|
\* truncated toward zero, component by component.
VoxelCacheExact ==
    pc = "accel" =>
        /\ \A i \in 1..Len(boids) :
              Cardinality({e \in Entries(voxelCache) :
                              voxelCache[e[1]][e[2]] = Ptr(storage, i)}) = 1
        /\ Cardinality(Entries(voxelCache)) = Len(boids)
        /\ \A e \in Entries(voxelCache) :
              LET q == voxelCache[e[1]][e[2]]
              IN  /\ q.buf = storage
                  /\ q.idx \in 1..Len(boids)
                  /\ \A c \in 1..3 :
                        IsTruncation(e[1][c], boids[q.idx].position[c],
                                     Abs(PerceptionRadius))

\* a second rebuild, over agents that moved, one of them at a negative
\* coordinate strictly inside a cell
VoxelCacheExactWitness ==
    /\ pc = "accel"
    /\ steps >= 1
    /\ Len(boids) >= 2
    /\ \E i \in 1..Len(boids) :
          /\ boids[i].position # pre[1].position
          /\ \E c \in 1..3 : /\ boids[i].position[c] < 0
                             /\ boids[i].position[c] % Abs(PerceptionRadius) # 0
    /\ \E k \in DOMAIN voxelCache : Len(voxelCache[k]) >= 2

----------------------------------------------------------------------------
(* C2 *)

\* C2: after update(dt) has returned, the speed of every agent is at most
\* MaxVelocity.
VelocityBound ==
    (pc = "idle" /\ steps > 0) =>
        \A i \in 1..Len(boids) :
            Integrated(i) => Length2(boids[i].velocity) <= MaxVelocity * MaxVelocity

----------------------------------------------------------------------------
(* C3 *)

\* r is v shortened along v's own ray, up to the rounding of each component
\* toward zero
ShortenedAlong(r, v) ==
    /\ \A c \in 1..3 : r[c] * v[c] >= 0 /\ Abs(r[c]) <= Abs(v[c])
    /\ \A c, d \in 1..3 : Abs(r[c] * v[d] - r[d] * v[c]) <= Abs(v[c]) + Abs(v[d])

\* C3: the acceleration phase 1 stores for an agent is never longer than
\* MaxAcceleration, whatever its neighbours (coincident ones included),
\* targets and weights; it is the combined force itself when that is short
\* enough, and otherwise the combined force shortened along its own direction.
AccelerationBound ==
    \A i \in 1..Len(boids) :
        /\ Length2(boids[i].acceleration) <= MaxAcceleration * MaxAcceleration
        /\ Computed(i) =>
              LET raw == lastForces[i].raw
                  acc == boids[i].acceleration
              IN  /\ ShortenedAlong(acc, raw)
                  /\ Length2(raw) <= MaxAcceleration * MaxAcceleration => acc = raw
                  /\ Length2(raw) > MaxAcceleration * MaxAcceleration =>
                        Length2(VAdd(acc, <<Sign(raw[1]), Sign(raw[2]), Sign(raw[3])>>))
                            > MaxAcceleration * MaxAcceleration

\* the clamp at work on a random kick and on a force off the axes
AccelerationBoundWitness ==
    /\ \E i \in 1..Len(boids) :
          /\ Computed(i)
          /\ \E n \in 1..Len(lastForces[i].nearby) : lastForces[i].nearby[n].distance2 = 0
          /\ Length2(lastForces[i].raw) > MaxAcceleration * MaxAcceleration
          /\ boids[i].acceleration # Zero3
    /\ \E i \in 1..Len(boids) :
          /\ Computed(i)
          /\ Length2(lastForces[i].raw) > MaxAcceleration * MaxAcceleration
          /\ Cardinality({c \in 1..3 : lastForces[i].raw[c] # 0}) >= 2

----------------------------------------------------------------------------
(* C4 *)

\* the target updateBoid chose for boid i
ChosenTarget(i) ==
    ChooseTarget(pre[i].position, SteeringTargets, SteeringTargetType, 1,
                 [target |-> pre[i].position, found |-> FALSE, d2 |-> 0]).target

\* C4: with a LINEAR curve the steering term is the vector from the agent to
\* the chosen target, zero only when the agent is at the target; in
\* particular the agent at the origin with the one target (10, 0, 0),
\* steering weight 1 and the other weights 0 is accelerated by (1, 0, 0) * 10
\* clamped to MaxAcceleration.
SteeringContribution ==
    \A i \in 1..Len(boids) :
        (Computed(i) /\ SteeringTargets # <<>> /\ SteeringTargetType = "LINEAR") =>
            /\ lastForces[i].steering = VSub(ChosenTarget(i), pre[i].position)
            /\ (/\ pre[i].position = Zero3
                /\ SteeringTargets = <<<<10 * SCALE, 0, 0>>>>
                /\ SteeringWeight = 1 /\ SeparationWeight = 0
                /\ AlignmentWeight = 0 /\ CohesionWeight = 0
                /\ MaxAcceleration <= 10 * SCALE)
               => boids[i].acceleration = <<MaxAcceleration, 0, 0>>

----------------------------------------------------------------------------
(* C5 *)

\* the forward ray position + t * velocity, t >= 0, meets the padded sphere
\* (the zero velocity defines no ray)
RayMeetsPaddedSphere(b) ==
    LET R == CollisionRadius + Padding
        rel == VSub(b.position, CollisionCenter)
        a == Length2(b.velocity)
        along == Dot(b.velocity, rel)
    IN  /\ a # 0
        /\ IF along >= 0
           THEN Length2(rel) <= R * R
           ELSE Length2(rel) * a - along * along <= R * R * a

\* boid 1 is the agent at position p with velocity (1, 0, 0) and motion
\* normal (0, 0, 1), the sphere has radius 1 and is centred at the origin,
\* and avoidanceDirection has run on it
SphereScenario(p) ==
    /\ scene = "sphere"
    /\ Integrated(1)
    /\ pre[1].position = p
    /\ pre[1].velocity = <<1 * SCALE, 0, 0>>
    /\ pre[1].motion_normal = <<0, 0, 1>>
    /\ CollisionRadius = 1 * SCALE
    /\ CollisionCenter = Zero3

\* the returned direction has a component along the in-plane perpendicular
\* of the direction from the agent to the sphere's centre
HasPerpendicularPart(i) ==
    /\ ~lastAvoid[i].nan
    /\ lastAvoid[i].unit
    /\ Dot(lastAvoid[i].target,
           Cross(pre[i].motion_normal, VSub(CollisionCenter, pre[i].position))) # 0

\* C5 as claimed: the agent at (-5, 0, 0) is reported ACTIVE, with an escape
\* direction that has a perpendicular part.
AvoidanceActivationAtFive ==
    SphereScenario(<<-5 * SCALE, 0, 0>>) =>
        /\ lastAvoid[1].avoidance
        /\ boids[1].avoidance
        /\ HasPerpendicularPart(1)

\* C5 amended: at (-5, 0, 0) the sphere is 3.5 ahead, not nearer than the
\* padded radius 1.5, and the agent is reported INACTIVE with its velocity
\* returned; at (-2, 0, 0) the sphere is 0.5 ahead and the agent is reported
\* ACTIVE with an escape direction that has a perpendicular part.
AvoidanceActivationInRange ==
    /\ SphereScenario(<<-5 * SCALE, 0, 0>>) =>
          /\ ~lastAvoid[1].avoidance
          /\ ~boids[1].avoidance
          /\ lastAvoid[1].target = pre[1].velocity
    /\ SphereScenario(<<-2 * SCALE, 0, 0>>) =>
          /\ lastAvoid[1].avoidance
          /\ boids[1].avoidance
          /\ HasPerpendicularPart(1)

\* avoidanceDirection has run on the agent at (-5, 0, 0), which sees the
\* sphere ahead and out of range
AvoidanceActivationWitness ==
    /\ SphereScenario(<<-5 * SCALE, 0, 0>>)
    /\ ~boids[1].avoidance
    /\ lastAvoid[1].target = <<1 * SCALE, 0, 0>>
    /\ RayMeetsPaddedSphere(pre[1])

----------------------------------------------------------------------------
(* C6 *)

\* C6: an agent whose forward ray does not meet the padded sphere is
\* reported INACTIVE and gets its own velocity back, whatever its velocity,
\* the zero vector included.
AvoidanceInactive ==
    \A i \in 1..Len(boids) :
        (Integrated(i) /\ ~RayMeetsPaddedSphere(pre[i])) =>
            /\ ~lastAvoid[i].avoidance
            /\ ~boids[i].avoidance
            /\ lastAvoid[i].target = pre[i].velocity

----------------------------------------------------------------------------
(* C7 *)

\* update(dt = 1) has just returned on a flock of one agent with no target,
\* no external change made since the flock was set up
SingleStepDone ==
    /\ scene = "single"
    /\ Len(boids) = 1
    /\ SteeringTargets = <<>>
    /\ pc = "idle"
    /\ steps > 0
    /\ dt = DtDen

NoNeighborOutcome ==
    /\ boids[1].acceleration = Zero3
    /\ boids[1].velocity = pre[1].velocity
    /\ boids[1].position = VAdd(pre[1].position, pre[1].velocity)

\* C7 as claimed: for every initial velocity, the single agent ends the step
\* with zero acceleration, its velocity unchanged and its position advanced
\* by that velocity.
NoNeighborScenario == SingleStepDone => NoNeighborOutcome

\* C7 amended: the same, for every velocity no longer than MaxVelocity.
NoNeighborScenarioWithinMax ==
    (SingleStepDone /\ Length2(pre[1].velocity) <= MaxVelocity * MaxVelocity) =>
        NoNeighborOutcome

NoNeighborScenarioWitness ==
    /\ SingleStepDone
    /\ pre[1].velocity = <<0, -6, 8>>
    /\ boids[1].position # pre[1].position
    /\ pre[1].position # Zero3

----------------------------------------------------------------------------
(* C8 *)

\* the accelerations updateBoid can give boid i on the state bs
AccelerationsFrom(bs, i) ==
    LET cache == buildVoxelCache(voxelCache, bs, PerceptionRadius, storage)
        nearby == getNearbyBoids(i, bs, storage, cache, PerceptionRadius,
                                 FOVAngleDegCompareValue)
    IN  {updateBoid(i, bs, nearby, kicks, SeparationWeight, SeparationType,
                    AlignmentWeight, CohesionWeight, SteeringWeight,
                    SteeringTargets, SteeringTargetType,
                    MaxAcceleration).acceleration
            : kicks \in [ZeroDistance(nearby) -> RandomUniform]}

\* C8: while phase 1 runs no agent's position or velocity has changed since
\* update() began, and once phase 2 runs every agent's acceleration is one
\* updateBoid gives on the positions and velocities of all agents as they
\* were when update() began, whichever agents phase 2 has already moved.
TwoPhaseBarrier ==
    /\ pc = "accel" =>
          \A i \in 1..Len(boids) : /\ boids[i].position = pre[i].position
                                   /\ boids[i].velocity = pre[i].velocity
    /\ pc = "integrate" =>
          \A i \in 1..Len(boids) : boids[i].acceleration \in AccelerationsFrom(pre, i)

\* phase 2 has moved the first agent, a neighbour of the second, and has yet
\* to integrate the second
TwoPhaseBarrierWitness ==
    /\ pc = "integrate"
    /\ idx = 2
    /\ boids[1].position # pre[1].position
    /\ boids[1].velocity # pre[1].velocity
    /\ Computed(2)
    /\ \E n \in 1..Len(lastForces[2].nearby) : lastForces[2].nearby[n].boid.idx = 1
    /\ boids[2].acceleration # Zero3
    /\ boids[2].acceleration \notin AccelerationsFrom(boids, 2)

----------------------------------------------------------------------------
(* C10 *)

\* update() runs on two agents that were at one position when it began, and
\* phase 1 is over
CoincidentPhase1Done ==
    /\ pc = "integrate"
    /\ Len(boids) = 2
    /\ pre[1].position = pre[2].position
    /\ PerceptionRadius > 0

\* boid i's nearby list holds the other agent at distance 0
PerceivesCoincident(i) ==
    \E n \in 1..Len(lastForces[i].nearby) :
        /\ lastForces[i].nearby[n].boid.idx = 3 - i
        /\ lastForces[i].nearby[n].distance2 = 0

\* update(dt > 0) has returned on the two agents of the coincidence scenario
CoincidentStepDone ==
    /\ scene = "coincident"
    /\ Len(boids) = 2
    /\ pc = "idle"
    /\ steps > 0
    /\ dt > 0

Distance2(bs) == Length2(VSub(bs[1].position, bs[2].position))

\* C10 as claimed: two agents at one position, for every field of view and
\* every pair of velocities, each perceive the other at distance 0 and get a
\* nonzero separation, and every update with dt > 0 strictly increases the
\* distance between them.
CoincidenceScenario ==
    /\ CoincidentPhase1Done =>
          \A i \in 1..2 : /\ PerceivesCoincident(i)
                          /\ lastForces[i].separation # Zero3
    /\ CoincidentStepDone => Distance2(boids) > Distance2(pre)

\* C10 amended: an agent at the position of the other perceives it, at
\* distance 0, and gets a separation of length 1000, exactly when the cosine
\* of its field of view is above 0 or its own velocity is zero; otherwise its
\* nearby list is empty and its separation zero.
CoincidenceScenarioInView ==
    CoincidentPhase1Done =>
        \A i \in 1..2 :
            IF FOVAngleDegCompareValue[1] > 0 \/ pre[i].velocity = Zero3
            THEN /\ PerceivesCoincident(i)
                 /\ Length2(lastForces[i].separation)
                        = (RandomScale * SCALE) * (RandomScale * SCALE)
            ELSE /\ lastForces[i].nearby = <<>>
                 /\ lastForces[i].separation = Zero3

\* both cases in one flock: the moving agent sees nothing under a field of
\* view of 90 degrees, the resting one sees the moving one
CoincidenceScenarioWitness ==
    /\ CoincidentPhase1Done
    /\ scene = "coincident"
    /\ FOVAngleDeg = 90
    /\ pre[1].velocity # Zero3
    /\ pre[2].velocity = Zero3
    /\ lastForces[1].nearby = <<>>
    /\ PerceivesCoincident(2)
    /\ lastForces[2].separation # Zero3

----------------------------------------------------------------------------
(* C11 *)

\* the step is one of update(): its call, an iteration of phase 1 or one of
\* phase 2
UpdateStep == ~(pc = "idle" /\ pc' = "idle")

\* the fields update() may write, for the agent the loops are at
OnlyWrittenFields(old, new) ==
    /\ new.motion_normal = old.motion_normal
    /\ new.size = old.size
    /\ DOMAIN new = DOMAIN old

\* C11: no step of update(dt) adds, removes or reorders agents or relocates
\* their storage; it leaves every agent's motion_normal and size as they
\* were, and changes at most the position, velocity, acceleration and
\* avoidance flag of the agent its loop is at.
UpdateFrame ==
    [][UpdateStep =>
          /\ Len(boids') = Len(boids)
          /\ storage' = storage /\ capacity' = capacity
          /\ \A i \in 1..Len(boids) :
                /\ OnlyWrittenFields(boids[i], boids'[i])
                /\ i # idx => boids'[i] = boids[i]]_vars

\* update() has returned on several agents and has written all four fields
\* of one of them
UpdateFrameWitness ==
    /\ pc = "idle"
    /\ steps > 0
    /\ Len(boids) >= 2
    /\ \E i \in 1..Len(boids) :
          /\ boids[i].position # pre[i].position
          /\ boids[i].velocity # pre[i].velocity
          /\ boids[i].acceleration # pre[i].acceleration
          /\ boids[i].avoidance # pre[i].avoidance
          /\ boids[i].motion_normal = <<0, 0, 1>>

----------------------------------------------------------------------------
(* C12 *)

\* C12: update(dt = 0) moves no agent: once its loop has integrated an
\* agent, and after it has returned, the agent's position is the one it had
\* when update() began, whatever the update did to its velocity.
ZeroTimeStep ==
    dt = 0 =>
        \A i \in 1..Len(boids) :
            Integrated(i) => boids[i].position = pre[i].position

\* update(0) has returned on a moving agent whose velocity it changed and
\* on an agent it has accelerated
ZeroTimeStepWitness ==
    /\ dt = 0
    /\ pc = "idle"
    /\ steps > 0
    /\ \E i \in 1..Len(boids) :
          /\ Integrated(i)
          /\ pre[i].velocity # Zero3
          /\ boids[i].velocity # pre[i].velocity
          /\ boids[i].velocity # Zero3
    /\ \E i \in 1..Len(boids) :
          /\ Integrated(i)
          /\ boids[i].acceleration # Zero3
          /\ boids[i].velocity # Zero3

----------------------------------------------------------------------------
(* C13 *)

\* the loop of update() has left boid i strictly inside the unpadded sphere
EndedInsideSphere(i) ==
    /\ Integrated(i)
    /\ Length2(VSub(boids[i].position, CollisionCenter))
           < CollisionRadius * CollisionRadius

\* C13: whenever integration leaves an agent strictly inside the unpadded
\* sphere, the correction added to its velocity does not point towards the
\* sphere's centre: its dot product with position - CollisionCenter is >= 0.
FallbackPointsAway ==
    \A i \in 1..Len(boids) :
        EndedInsideSphere(i) =>
            Dot(Fallback(boids[i].position, CollisionCenter),
                VSub(boids[i].position, CollisionCenter)) >= 0

----------------------------------------------------------------------------
(* C14 *)

\* C14: avoidanceDirection never divides by zero (2a, CPlength) and never
\* takes the square root of a negative number (delta, R^2 - (n . (center -
\* position))^2, 1 - sin_theta^2), whatever the agent and the sphere.
AvoidanceTotal ==
    \A i \in 1..Len(boids) :
        Integrated(i) => /\ ~lastAvoid[i].divZero
                         /\ ~lastAvoid[i].sqrtNeg

----------------------------------------------------------------------------
(* C15 *)

\* what updateBoid stores for boid i when it finds the engine at e
AccelerationAt(i, e) ==
    LET nearby == getNearbyBoids(i, boids, storage, voxelCache, PerceptionRadius,
                                 FOVAngleDegCompareValue)
    IN  updateBoid(i, boids, nearby, DrawKicks(nearby, e), SeparationWeight,
                   SeparationType, AlignmentWeight, CohesionWeight, SteeringWeight,
                   SteeringTargets, SteeringTargetType, MaxAcceleration).acceleration

\* the step leaves every agent as it was, but for the acceleration of the
\* agent the loop is at, and leaves the index and the parameters as they were
WritesOwnAcceleration ==
    /\ Len(boids') = Len(boids)
    /\ \A j \in 1..Len(boids) :
          /\ boids'[j] = [boids[j] EXCEPT !.acceleration = boids'[j].acceleration]
          /\ j # idx => boids'[j].acceleration = boids[j].acceleration
    /\ voxelCache' = voxelCache
    /\ PerceptionRadius' = PerceptionRadius
    /\ FOVAngleDegCompareValue' = FOVAngleDegCompareValue
    /\ params' = params
    /\ storage' = storage /\ capacity' = capacity

\* the acceleration the step stores is the one updateBoid stores whatever
\* state the computations run before it left the engine in
SameForEveryOrder ==
    \A e \in 0..(EngPeriod - 1) : boids'[idx].acceleration = AccelerationAt(idx, e)

\* C15 as claimed: a step of phase 1 writes only the acceleration of its own
\* agent, mutates no shared state, and stores the same acceleration in
\* whatever order the computations run.
PhaseOneIndependence ==
    [][pc = "accel" =>
          /\ WritesOwnAcceleration
          /\ eng' = eng
          /\ SameForEveryOrder]_vars

\* C15 amended: a step of phase 1 writes only the acceleration of its own
\* agent, leaves the index and the parameters alone, and advances the shared
\* random engine once for each zero-distance neighbour of its agent; the
\* acceleration is the same in whatever order the computations run for an
\* agent with no zero-distance neighbour.
PhaseOneWrites ==
    [][pc = "accel" =>
          LET zero == ZeroDistance(lastForces'[idx].nearby)
          IN  /\ WritesOwnAcceleration
              /\ eng' = (eng + Cardinality(zero)) % EngPeriod
              /\ zero = {} => SameForEveryOrder]_vars

\* phase 1 has run on an agent that has a zero-distance neighbour, and has
\* drawn from the engine, and is at an agent that has one too
PhaseOneWritesWitness ==
    /\ pc = "accel"
    /\ idx = 2
    /\ ZeroDistance(lastForces[1].nearby) # {}
    /\ boids[1].acceleration # Zero3
    /\ eng = 2
    /\ \E e \in 0..(EngPeriod - 1) : AccelerationAt(2, e) # AccelerationAt(2, eng)

----------------------------------------------------------------------------
(* C16 *)

\* q points into the collection's current storage, at one of its agents
FreshPointer(q) ==
    /\ q.buf = storage
    /\ q.idx \in 1..Len(boids)

\* C16: while update() runs, whatever was appended or set between the
\* steps, the cell size is not 0, every pointer in the index points into the
\* collection's current storage and sits in the cell its agent's current
\* position has under the cell size the queries use, and every record a
\* query has returned points into the current storage and carries the
\* direction to that agent's position.
NoStaleIndexUse ==
    /\ pc # "idle" => PerceptionRadius # 0
    /\ pc = "accel" =>
          \A e \in Entries(voxelCache) :
              LET q == voxelCache[e[1]][e[2]]
              IN  /\ FreshPointer(q)
                  /\ e[1] = getVoxelForBoid(boids[q.idx], PerceptionRadius)
    /\ pc # "idle" =>
          \A i \in 1..Len(boids) :
              Computed(i) =>
                  \A n \in 1..Len(lastForces[i].nearby) :
                      LET rec == lastForces[i].nearby[n]
                      IN  /\ FreshPointer(rec.boid)
                          /\ rec.boid.idx # i
                          /\ rec.direction = VSub(pre[rec.boid.idx].position,
                                                  pre[i].position)

\* a step after an append that relocated the storage: the query of the
\* first agent has returned the appended agent and one that has moved
NoStaleIndexUseWitness ==
    /\ pc = "accel"
    /\ steps >= 1
    /\ storage >= 1
    /\ Computed(1)
    /\ \E n \in 1..Len(lastForces[1].nearby) :
          lastForces[1].nearby[n].boid = Ptr(storage, Len(boids))
    /\ \E n \in 1..Len(lastForces[1].nearby) :
          lastForces[1].nearby[n].boid.idx < Len(boids)

============================================================================
